---------------------------- MODULE Spec2Model ----------------------------
(***************************************************************************)
(* A model of three source files of the block editor:                      *)
(*                                                                         *)
(*   packages/block-editor/src/hooks/style.js  the style-support filters   *)
(*        (getCSSVariables, addAttribute, addSaveProps, addEditProps,      *)
(*        withBlockControls);                                              *)
(*   unnamed/part_001   the enable-item selectors (getActiveComplementary- *)
(*        Area, isItemPinned);                                             *)
(*   unnamed/part_000   the NavigationStructurePanel component.            *)
(*                                                                         *)
(* JavaScript values are records [t |-> <type tag>, v |-> <payload>].  An  *)
(* object's payload is the sequence of its own enumerable entries          *)
(* <<key, value>> in insertion order, which is the order lodash's entries  *)
(* and the spread syntax visit them in.  Keys of a style configuration are *)
(* sequences of one-character strings, so that kebabCase can be computed   *)
(* character by character; string values and generated CSS-variable names  *)
(* are TLA+ strings, built by concatenation as the code builds them.       *)
(***************************************************************************)
EXTENDS Integers, Sequences, FiniteSets, TLC

VARIABLES
    pc,             \* which operation ran last ("ready" before any)
    styles,         \* the argument handed to getCSSVariables
    cssVariables,   \* the outcome of the getCSSVariables call
    state,          \* the store state handed to the selectors
    scope,          \* the scope argument of the last selector call
    item,           \* the item argument of the last isItemPinned call
    selected,       \* what the last selector call returned
    settings,       \* the block type the registration filters work on
    BlockEdit,      \* the edit component, as the edit filter left it
    attributes,     \* the block attributes of the last props computation
    returned,       \* the outcome of the last props computation
    supplied,       \* the save props as the caller built them
    props,          \* the save props object, changed in place by the filter
    editProps,      \* the props of the last render of the edit component
    rendered,       \* the element array that render returned
    applications,   \* how many times in succession the last filter ran
    observed,       \* the observable result after each of those times
    blocks,         \* the blocks prop of NavigationStructurePanel
    selectedBlockClientIds, \* the block editor store's selection
    panel           \* what NavigationStructurePanel rendered last

cssVars == <<styles, cssVariables>>
selectorVars == <<state, scope, item, selected>>
filterVars == <<settings, BlockEdit, attributes, returned, supplied, props,
                editProps, rendered, applications, observed>>
panelVars == <<blocks, selectedBlockClientIds, panel>>
vars == <<pc, cssVars, selectorVars, filterVars, panelVars>>

\* The value of the variables an operation family does not use.
Idle == "idle"
CSSIdle == styles = Idle /\ cssVariables = Idle
SelectorsIdle == state = Idle /\ scope = Idle /\ item = Idle /\ selected = Idle
FiltersIdle ==
    /\ settings = Idle /\ BlockEdit = Idle /\ attributes = Idle
    /\ returned = Idle /\ supplied = Idle /\ props = Idle /\ editProps = Idle
    /\ rendered = Idle /\ applications = Idle /\ observed = Idle
PanelIdle == blocks = Idle /\ selectedBlockClientIds = Idle /\ panel = Idle

---------------------------------------------------------------------------
(* JavaScript values                                                       *)

Undefined == [t |-> "undefined", v |-> 0]
Null == [t |-> "null", v |-> 0]
Num(n) == [t |-> "number", v |-> n]
Str(s) == [t |-> "string", v |-> s]
Obj(e) == [t |-> "object", v |-> e]

\* typeof value === 'object' || typeof value === 'function', which is
\* also true of null.
isObjectTypeof(value) == value.t \in {"object", "function", "null"}

\* lodash isObject: true of objects (arrays and functions included), false
\* of null and of every primitive.
isObject(value) == value.t \in {"object", "function"}

\* ToBoolean of the primitives the model holds.
Truthy(value) ==
    CASE value.t = "undefined" -> FALSE
      [] value.t = "null" -> FALSE
      [] value.t = "number" -> value.v # 0
      [] value.t = "string" -> value.v # ""
      [] value.t = "boolean" -> value.v
      [] OTHER -> TRUE

\* value + 'px': a number is converted to its decimal string first.
PlusPx(value) ==
    CASE value.t = "number" -> Str(ToString(value.v) \o "px")
      [] value.t = "string" -> Str(value.v \o "px")
      [] OTHER -> Str(value.t \o "px")

\* The outcome of a call: a returned value, or a thrown TypeError.
Returned(value) == [threw |-> FALSE, value |-> value]
Threw == [threw |-> TRUE, value |-> <<>>]

---------------------------------------------------------------------------
(* Flat mappings (the objects getCSSVariables builds): functions from      *)
(* TLA+ strings to JavaScript values.                                      *)

EmptyMap == <<>>

\* result[ key ] = value
Put(map, key, value) ==
    [k \in DOMAIN map \cup {key} |-> IF k = key THEN value ELSE map[k]]

\* { ...a, ...b }: b's entries win.
Spread(a, b) ==
    [k \in DOMAIN a \cup DOMAIN b |-> IF k \in DOMAIN b THEN b[k] ELSE a[k]]

\* lodash mapKeys( object, iteratee ), for the iteratees the module
\* passes: ( value, key ) => before + key.
mapKeys(object, before) ==
    [nk \in {before \o k : k \in DOMAIN object} |->
        object[CHOOSE k \in DOMAIN object : before \o k = nk]]

---------------------------------------------------------------------------
(* kebabCase, on keys made of ASCII letters and "-".                       *)

LowerLetters ==
    <<"a","b","c","d","e","f","g","h","i","j","k","l","m",
      "n","o","p","q","r","s","t","u","v","w","x","y","z">>
UpperLetters ==
    <<"A","B","C","D","E","F","G","H","I","J","K","L","M",
      "N","O","P","Q","R","S","T","U","V","W","X","Y","Z">>

IsLower(c) == \E i \in DOMAIN LowerLetters : LowerLetters[i] = c
IsUpper(c) == \E i \in DOMAIN UpperLetters : UpperLetters[i] = c
ToLower(c) ==
    IF IsUpper(c)
    THEN LowerLetters[CHOOSE i \in DOMAIN UpperLetters : UpperLetters[i] = c]
    ELSE c

\* The end of the run of characters of one class that starts at i.
RECURSIVE RunEnd(_, _, _)
RunEnd(s, i, lower) ==
    IF i < Len(s) /\ (IF lower THEN IsLower(s[i + 1]) ELSE IsUpper(s[i + 1]))
    THEN RunEnd(s, i + 1, lower)
    ELSE i

\* lodash words( string ): the maximal words of the key from position i on.
\* A word is an optional capital followed by small letters, or a run of
\* capitals (without its last one when small letters follow it); every
\* other character separates words.
RECURSIVE words(_, _)
words(s, i) ==
    IF i > Len(s) THEN <<>>
    ELSE IF IsLower(s[i])
    THEN LET e == RunEnd(s, i, TRUE)
         IN  <<SubSeq(s, i, e)>> \o words(s, e + 1)
    ELSE IF IsUpper(s[i])
    THEN IF i < Len(s) /\ IsLower(s[i + 1])
         THEN LET e == RunEnd(s, i + 1, TRUE)
              IN  <<SubSeq(s, i, e)>> \o words(s, e + 1)
         ELSE LET r == RunEnd(s, i, FALSE)
                  e == IF r < Len(s) /\ IsLower(s[r + 1]) THEN r - 1 ELSE r
              IN  <<SubSeq(s, i, e)>> \o words(s, e + 1)
    ELSE words(s, i + 1)

\* The characters of a word, lower-cased, as a string.
RECURSIVE LowerString(_)
LowerString(w) ==
    IF w = <<>> THEN "" ELSE ToLower(Head(w)) \o LowerString(Tail(w))

RECURSIVE JoinWords(_)
JoinWords(ws) ==
    IF ws = <<>> THEN ""
    ELSE IF Len(ws) = 1 THEN LowerString(ws[1])
    ELSE LowerString(ws[1]) \o "-" \o JoinWords(Tail(ws))

kebabCase(key) == JoinWords(words(key, 1))


---------------------------------------------------------------------------
(* getCSSVariables                                                         *)

\* const prefix = '--wp';  const token = '--';
prefix == "--wp"
token == "--"

\* The key that has a registered formatter.
fontSizeKey == <<"f","o","n","t","S","i","z","e">>

\* Two of the property names every object literal inherits from
\* Object.prototype.  valueFormatters[ key ] is a plain property read, so it
\* finds them as it finds the object's own fontSize.
toStringKey == <<"t","o","S","t","r","i","n","g">>
valueOfKey == <<"v","a","l","u","e","O","f">>

\* valueFormatters[ key ]: the name of the function the read yields, or
\* "undefined".
valueFormatters(key) ==
    CASE key = fontSizeKey -> "fontSize"
      [] key = toStringKey -> "Object.prototype.toString"
      [] key = valueOfKey -> "Object.prototype.valueOf"
      [] OTHER -> "undefined"

\* lodash identity
identity(value) == value

\* fontSize: ( value ) => ( value ? value + 'px' : value )
fontSizeFormatter(value) == IF Truthy(value) THEN PlusPx(value) ELSE value

\* ( valueFormatters[ key ] || identity )( value ).  The call passes no
\* receiver; in the module's strict mode Object.prototype.toString then
\* answers "[object Undefined]" and Object.prototype.valueOf throws a
\* TypeError.
formatter(key, value) ==
    CASE valueFormatters(key) = "fontSize" -> Returned(fontSizeFormatter(value))
      [] valueFormatters(key) = "Object.prototype.toString" ->
            Returned(Str("[object Undefined]"))
      [] valueFormatters(key) = "Object.prototype.valueOf" -> Threw
      [] OTHER -> Returned(identity(value))

\* lodash entries( config ): the own entries of an object, none of
\* undefined or null.
entries(config) == IF config.t = "object" THEN config.v ELSE <<>>

\* getNestedCSSVariables( config ), as the outcome of folding forEach over
\* entries( config ) from entry i on, with result the mapping built so far.
RECURSIVE getNestedCSSVariables(_), forEachEntry(_, _, _)
forEachEntry(config, i, result) ==
    IF i > Len(entries(config)) THEN Returned(result)
    ELSE LET key == entries(config)[i][1]
             value == entries(config)[i][2]
         IN  IF ~isObject(value)
             THEN LET formatted == formatter(key, value)
                  IN  IF formatted.threw THEN Threw
                      ELSE forEachEntry(config, i + 1,
                               Put(result, kebabCase(key), formatted.value))
             ELSE LET nested == getNestedCSSVariables(value)
                  IN  IF nested.threw THEN Threw
                      ELSE forEachEntry(config, i + 1,
                               Spread(result,
                                   mapKeys(nested.value,
                                       kebabCase(key) \o token)))

getNestedCSSVariables(config) == forEachEntry(config, 1, EmptyMap)

\* getCSSVariables( styles = {} ): the default replaces undefined only.
getCSSVariables(stylesArg) ==
    LET config == IF stylesArg = Undefined THEN Obj(<<>>) ELSE stylesArg
        nested == getNestedCSSVariables(config)
    IN  IF nested.threw THEN Threw
        ELSE Returned(mapKeys(nested.value, prefix \o token))

---------------------------------------------------------------------------
(* The style configurations the model draws from.                          *)

MaxEntries == 2

fontDashSizeKey == <<"f","o","n","t","-","s","i","z","e">>
colorKey == <<"c","o","l","o","r">>
textKey == <<"t","e","x","t">>

ConfigKeys ==
    {fontSizeKey, fontDashSizeKey, colorKey, textKey, toStringKey, valueOfKey}

Leaves == {Num(16), Num(0), Str("red"), Str(""), Null, Undefined}

KeysOf(es) == {es[i][1] : i \in DOMAIN es}

\* The entry sequences, with distinct keys, that hold n entries in all,
\* those of nested objects counted; and the values that hold n entries.
RECURSIVE EntriesOfSize(_, _, _), ValuesOfSize(_, _, _)
EntriesOfSize(keys, leaves, n) ==
    IF n = 0 THEN {<<>>}
    ELSE UNION {
            UNION {
                {Append(rest, <<k, val>>) :
                    k \in keys \ KeysOf(rest),
                    val \in ValuesOfSize(keys, leaves, m)}
                : rest \in EntriesOfSize(keys, leaves, n - 1 - m)}
            : m \in 0..(n - 1)}

ValuesOfSize(keys, leaves, n) ==
    IF n = 0 THEN leaves \cup {Obj(<<>>)}
    ELSE {Obj(es) : es \in EntriesOfSize(keys, leaves, n)}

ObjectsUpTo(keys, leaves, n) ==
    UNION {{Obj(es) : es \in EntriesOfSize(keys, leaves, m)} : m \in 0..n}

\* styles is a configuration of up to MaxEntries entries in all, or one of
\* undefined and null.
IsConfig(stylesArg) ==
    \/ stylesArg \in {Undefined, Null, Obj(<<>>)}
    \/ \E n \in 1..MaxEntries : \E m \in 0..(n - 1) :
          \E rest \in EntriesOfSize(ConfigKeys, Leaves, n - 1 - m) :
             \E k \in ConfigKeys \ KeysOf(rest) :
                \E val \in ValuesOfSize(ConfigKeys, Leaves, m) :
                   stylesArg = Obj(Append(rest, <<k, val>>))

---------------------------------------------------------------------------
(* The flattener on its own: a configuration is drawn, getCSSVariables is  *)
(* called on it.                                                           *)

NotCalled == [threw |-> FALSE, value |-> <<>>]

InitCSS ==
    /\ pc = "ready"
    /\ IsConfig(styles)
    /\ cssVariables = NotCalled
    /\ SelectorsIdle
    /\ FiltersIdle
    /\ PanelIdle

CallGetCSSVariables ==
    /\ pc = "ready"
    /\ pc' = "getCSSVariables"
    /\ cssVariables' = getCSSVariables(styles)
    /\ UNCHANGED <<styles, selectorVars, filterVars, panelVars>>

NextCSS == CallGetCSSVariables

SpecCSS == InitCSS /\ [][NextCSS]_vars

---------------------------------------------------------------------------
(* What the flattener is expected to produce, stated on the configuration  *)
(* tree itself.                                                            *)

IsLeaf(value) == value.t # "object"

\* The key paths from the root to the non-object leaves of a configuration.
RECURSIVE LeafPaths(_)
LeafPaths(config) ==
    IF config.t # "object" THEN {}
    ELSE UNION {
            IF IsLeaf(config.v[i][2])
            THEN {<<config.v[i][1]>>}
            ELSE {<<config.v[i][1]>> \o p : p \in LeafPaths(config.v[i][2])}
            : i \in DOMAIN config.v}

\* The leaf a path leads to.
RECURSIVE LeafAt(_, _)
LeafAt(config, path) ==
    LET i == CHOOSE j \in DOMAIN config.v : config.v[j][1] = Head(path)
    IN  IF Len(path) = 1 THEN config.v[i][2]
        ELSE LeafAt(config.v[i][2], Tail(path))

\* '--wp--' followed by the dash-cased keys of the path joined with '--'.
RECURSIVE DashedPath(_)
DashedPath(path) ==
    IF Len(path) = 1 THEN kebabCase(path[1])
    ELSE kebabCase(path[1]) \o "--" \o DashedPath(Tail(path))

VariableName(path) == "--wp--" \o DashedPath(path)

VariableNames(config) == {VariableName(p) : p \in LeafPaths(config)}

\* No two leaves of the configuration generate the same variable name.
NamesDistinct(config) ==
    \A p, q \in LeafPaths(config) : VariableName(p) = VariableName(q) => p = q

FlattenerReturned == pc = "getCSSVariables" /\ ~cssVariables.threw

C2_OnlyFontSizeIsFormatted ==
    FlattenerReturned =>
        \A p \in LeafPaths(styles) :
            (\A q \in LeafPaths(styles) :
                VariableName(q) = VariableName(p) => q = p)
            => cssVariables.value[VariableName(p)]
                 = IF p[Len(p)] = <<"f","o","n","t","S","i","z","e">>
                      /\ Truthy(LeafAt(styles, p))
                   THEN PlusPx(LeafAt(styles, p))
                   ELSE LeafAt(styles, p)

---------------------------------------------------------------------------
(* The enable-item selectors.  The keys of the store state are TLA+        *)
(* strings.                                                                *)

True == [t |-> "boolean", v |-> TRUE]
False == [t |-> "boolean", v |-> FALSE]

\* object[ key ]: the value of an own property, undefined when the object
\* has no such property or is a primitive.
Prop(object, key) ==
    IF object.t = "object" /\ \E i \in DOMAIN object.v : object.v[i][1] = key
    THEN object.v[CHOOSE i \in DOMAIN object.v : object.v[i][1] = key][2]
    ELSE Undefined

IsNullish(value) == value.t \in {"undefined", "null"}

\* lodash baseGet: follow the path while the value reached is neither null
\* nor undefined; the value at the end of the path, or undefined when the
\* walk stopped before it.
RECURSIVE baseGet(_, _)
baseGet(object, path) ==
    IF path = <<>> THEN object
    ELSE IF IsNullish(object) THEN Undefined
    ELSE baseGet(Prop(object, Head(path)), Tail(path))

\* lodash get( object, path, defaultValue ): the default stands in for an
\* undefined result only.
get(object, path, defaultValue) ==
    LET result == IF IsNullish(object) THEN Undefined ELSE baseGet(object, path)
    IN  IF result = Undefined THEN defaultValue ELSE result

\* The lookup without the null default.
getSingleEnableItemNoDefault(st, itemType, sc) ==
    get(Prop(Prop(st, "enableItems"), "singleEnableItems"),
        <<itemType, sc>>, Undefined)

getSingleEnableItem(st, itemType, sc) ==
    get(Prop(Prop(st, "enableItems"), "singleEnableItems"),
        <<itemType, sc>>, Null)

getActiveComplementaryArea(st, sc) ==
    getSingleEnableItem(st, "complementaryArea", sc)

\* The lookup coerced to a boolean instead of compared with true.
isMultipleEnabledItemTruthy(st, itemType, sc, it) ==
    Truthy(get(Prop(Prop(st, "enableItems"), "multipleEnableItems"),
               <<itemType, sc, it>>, Undefined))

\* get( ... ) === true; get's default is undefined here.
isMultipleEnabledItemEnabled(st, itemType, sc, it) ==
    get(Prop(Prop(st, "enableItems"), "multipleEnableItems"),
        <<itemType, sc, it>>, Undefined) = True

isItemPinned(st, sc, it) ==
    isMultipleEnabledItemEnabled(st, "pinnedItems", sc, it)

---------------------------------------------------------------------------
(* The store states the selectors are called on.                           *)

Scopes == {"core/edit-post", "core/edit-site"}
Items == {"plugin-a", "plugin-b"}
Areas == {"edit-post/document", "edit-post/block"}

\* The objects whose keys are among the given ones, in the given order,
\* each key absent or holding one of the given values.
RECURSIVE PartialObjects(_, _)
PartialObjects(keySeq, values) ==
    IF keySeq = <<>> THEN {<<>>}
    ELSE LET rest == PartialObjects(Tail(keySeq), values)
         IN  rest \cup {<<(<<Head(keySeq), val>>)>> \o r :
                           val \in values, r \in rest}

\* What may be stored for an item: the enabled marker and values that are
\* not it.
PinMarks == {True, False, Undefined, Null, Str("true"), Num(1)}

ItemMaps ==
    {Obj(es) : es \in PartialObjects(<<"plugin-a", "plugin-b">>, PinMarks)}

PinnedItemsStates ==
    {Obj(es) : es \in
        PartialObjects(<<"core/edit-post">>, ItemMaps \cup {Null})}
    \cup {Obj(<< <<"core/edit-site", Obj(<< <<"plugin-a", True>> >>)>> >>)}

MultipleEnableItemsStates ==
    {Undefined, Obj(<<>>), Obj(<< <<"pinnedItems", Null>> >>)}
    \cup {Obj(<< <<"pinnedItems", pinned>> >>) : pinned \in PinnedItemsStates}

ComplementaryAreaStates ==
    {Obj(es) : es \in
        PartialObjects(<<"core/edit-post", "core/edit-site">>,
            {Str(a) : a \in Areas} \cup {Undefined})}

SingleEnableItemsStates ==
    {Undefined, Obj(<<>>), Obj(<< <<"pinnedItems", Obj(<<>>)>> >>)}
    \cup {Obj(<< <<"complementaryArea", areas>> >>) :
             areas \in ComplementaryAreaStates}

States ==
    {Obj(<< <<"enableItems",
              Obj(<< <<"singleEnableItems", single>>,
                     <<"multipleEnableItems", multiple>> >>)>> >>) :
        single \in SingleEnableItemsStates,
        multiple \in MultipleEnableItemsStates}

InitSelectors ==
    /\ pc = "ready"
    /\ state \in States
    /\ scope = Idle /\ item = Idle /\ selected = Idle
    /\ CSSIdle
    /\ FiltersIdle
    /\ PanelIdle

CallGetActiveComplementaryArea ==
    \E sc \in Scopes :
        /\ pc' = "getActiveComplementaryArea"
        /\ scope' = sc
        /\ item' = Idle
        /\ selected' = getActiveComplementaryArea(state, sc)
        /\ UNCHANGED <<state, cssVars, filterVars, panelVars>>

CallIsItemPinned ==
    \E sc \in Scopes, it \in Items :
        /\ pc' = "isItemPinned"
        /\ scope' = sc
        /\ item' = it
        /\ selected' = isItemPinned(state, sc, it)
        /\ UNCHANGED <<state, cssVars, filterVars, panelVars>>

NextSelectors == CallGetActiveComplementaryArea \/ CallIsItemPinned

SpecSelectors == InitSelectors /\ [][NextSelectors]_vars

(* The selectors' claims, stated on the state tree.                        *)

\* state.enableItems.<kind>: always present in a store state.
EnableItemsOf(st, kind) == Prop(Prop(st, "enableItems"), kind)

\* Whether each segment of the path is present, object by object.
RECURSIVE HasPath(_, _)
HasPath(object, path) ==
    IF path = <<>> THEN TRUE
    ELSE /\ object.t = "object"
         /\ \E i \in DOMAIN object.v : object.v[i][1] = Head(path)
         /\ HasPath(Prop(object, Head(path)), Tail(path))

\* The value stored at the end of a path that is present.
RECURSIVE StoredAt(_, _)
StoredAt(object, path) ==
    IF path = <<>> THEN object
    ELSE StoredAt(Prop(object, Head(path)), Tail(path))

\* C4: isItemPinned returns true exactly when the value stored at
\* multipleEnableItems.pinnedItems[scope][item] is the boolean true, and
\* false when a segment of the path is absent or the value is anything else.
C4_PinnedIffStoredTrue ==
    pc = "isItemPinned" =>
        LET multiple == EnableItemsOf(state, "multipleEnableItems")
            path == <<"pinnedItems", scope, item>>
        IN  /\ selected \in BOOLEAN
            /\ selected = TRUE <=>
                  /\ HasPath(multiple, path)
                  /\ StoredAt(multiple, path) = [t |-> "boolean", v |-> TRUE]

\* Each case of C4 occurred: a true marker, an absent path, a stored value
\* that is truthy but not true.
C4_Witness ==
    /\ pc = "isItemPinned"
    /\ selected = FALSE
    /\ HasPath(EnableItemsOf(state, "multipleEnableItems"),
               <<"pinnedItems", scope, item>>)
    /\ StoredAt(EnableItemsOf(state, "multipleEnableItems"),
                <<"pinnedItems", scope, item>>) = Str("true")

\* C5: getActiveComplementaryArea returns null when singleEnableItems has
\* no complementaryArea entry or that has no entry for the scope, and the
\* stored string otherwise.
C5_ActiveAreaOrNull ==
    pc = "getActiveComplementaryArea" =>
        LET single == EnableItemsOf(state, "singleEnableItems")
            path == <<"complementaryArea", scope>>
        IN  IF HasPath(single, path) /\ StoredAt(single, path).t = "string"
            THEN selected = StoredAt(single, path)
            ELSE selected = [t |-> "null", v |-> 0]

C5_Witness ==
    /\ pc = "getActiveComplementaryArea"
    /\ selected.t = "string"
    /\ \E other \in Scopes :
          ~HasPath(EnableItemsOf(state, "singleEnableItems"),
                   <<"complementaryArea", other>>)

---------------------------------------------------------------------------
(* The style-support filters.                                              *)
(*                                                                         *)
(* A block type (the settings the registration filters are handed) is a    *)
(* record: its name, the set of support keys it declares with a truthy     *)
(* flag, its attributes (an object from attribute names to declarations),  *)
(* and its getEditWrapperProps (undefined or a function).  Props objects   *)
(* are functions from prop names to values, the style prop's value being a *)
(* flat mapping.  Block attributes are records with a style field.         *)

\* The support keys: imported from ./color, ./line-height and ./font-size.
COLOR_SUPPORT_KEY == "color"
LINE_HEIGHT_SUPPORT_KEY == "lineHeight"
FONT_SIZE_SUPPORT_KEY == "fontSize"

styleSupportKeys ==
    <<COLOR_SUPPORT_KEY, LINE_HEIGHT_SUPPORT_KEY, FONT_SIZE_SUPPORT_KEY>>

typographySupportKeys == <<LINE_HEIGHT_SUPPORT_KEY, FONT_SIZE_SUPPORT_KEY>>

\* hasBlockSupport of @wordpress/blocks, handed a block type: whether the
\* type declares the support key with a truthy flag.  Handed undefined (no
\* block type of that name is registered), false.
hasBlockSupport(blockType, key) ==
    blockType # Undefined /\ key \in blockType.supports

\* styleSupportKeys.some( ( key ) => hasBlockSupport( blockType, key ) )
hasStyleSupport(blockType) ==
    \E i \in DOMAIN styleSupportKeys :
        hasBlockSupport(blockType, styleSupportKeys[i])

\* Object.assign( object, { key: value } ): an own property keeps its place
\* and takes the value, a new one is added last.
Assign(object, key, value) ==
    IF \E i \in DOMAIN object.v : object.v[i][1] = key
    THEN Obj([i \in DOMAIN object.v |->
                IF object.v[i][1] = key THEN <<key, value>> ELSE object.v[i]])
    ELSE Obj(Append(object.v, <<key, value>>))

\* { type: 'object' }
ObjectDeclaration == Obj(<< <<"type", Str("object")>> >>)

\* The filter without its test for an existing style attribute.
addAttributeAlways(blockSettings) ==
    IF ~hasStyleSupport(blockSettings) THEN blockSettings
    ELSE [blockSettings EXCEPT
             !.attributes = Assign(@, "style", ObjectDeclaration)]

addAttribute(blockSettings) ==
    IF ~hasStyleSupport(blockSettings) THEN blockSettings
    ELSE IF ~Truthy(Prop(blockSettings.attributes, "style"))
    THEN [blockSettings EXCEPT
             !.attributes = Assign(@, "style", ObjectDeclaration)]
    ELSE blockSettings

\* props.style, for the spread: nothing is spread of an absent style.
StyleOf(p) == IF "style" \in DOMAIN p THEN p["style"] ELSE EmptyMap

\* The filter with the spreads in the other order:
\* { ...props.style, ...getCSSVariables( style ) }.
addSavePropsGeneratedLast(p, blockType, attrs) ==
    IF ~hasStyleSupport(blockType) THEN Returned(p)
    ELSE LET generated == getCSSVariables(attrs.style)
         IN  IF generated.threw THEN [threw |-> TRUE, value |-> p]
             ELSE Returned(
                      [k \in DOMAIN p \cup {"style"} |->
                          IF k = "style"
                          THEN Spread(StyleOf(p), generated.value)
                          ELSE p[k]])

\* addSaveProps( props, blockType, attributes ): the outcome holds the props
\* object as the call leaves it.  getCSSVariables is evaluated before
\* props.style is assigned, so a throw leaves the props as they were.
addSaveProps(p, blockType, attrs) ==
    IF ~hasStyleSupport(blockType) THEN Returned(p)
    ELSE LET generated == getCSSVariables(attrs.style)
         IN  IF generated.threw THEN [threw |-> TRUE, value |-> p]
             ELSE Returned(
                      [k \in DOMAIN p \cup {"style"} |->
                          IF k = "style"
                          THEN Spread(generated.value, StyleOf(p))
                          ELSE p[k]])

\* A function value: its name and, for the closure addEditProps installs,
\* the existingGetEditWrapperProps it captured.
Function(name, existing) ==
    [t |-> "function", v |-> [name |-> name, existing |-> existing]]

\* The filter installing a function that forgets the one registered before.
addEditPropsReplacing(blockSettings) ==
    IF ~hasStyleSupport(blockSettings) THEN blockSettings
    ELSE [blockSettings EXCEPT
             !.getEditWrapperProps = Function("addEditProps", Undefined)]

addEditProps(blockSettings) ==
    IF ~hasStyleSupport(blockSettings) THEN blockSettings
    ELSE [blockSettings EXCEPT
             !.getEditWrapperProps =
                 Function("addEditProps", blockSettings.getEditWrapperProps)]

\* The wrapper-props functions a block type may have registered before the
\* filter runs.  alignWrapperProps returns props without a style;
\* styleWrapperProps returns a class name, a prop computed from the
\* attributes it is handed, and a style of its own.
PreviousWrapperProps(name, attrs) ==
    IF name = "alignWrapperProps"
    THEN [k \in {"data-align"} |-> Str("wide")]
    ELSE [k \in {"className", "data-has-style", "style"} |->
            CASE k = "className" -> Str("wp-block")
              [] k = "data-has-style" ->
                    IF attrs.style = Undefined THEN Str("no") ELSE Str("yes")
              [] OTHER -> [j \in {"--wp--font-size"} |-> Str("20px")]]

\* A call of settings.getEditWrapperProps( attributes ).  The closure reads
\* the settings object it captured, which is the one the filter returned.
RECURSIVE callGetEditWrapperProps(_, _, _)
callGetEditWrapperProps(fn, blockSettings, attrs) ==
    IF fn.v.name = "addEditProps"
    THEN LET existing ==
                 IF Truthy(fn.v.existing)
                 THEN callGetEditWrapperProps(fn.v.existing, blockSettings, attrs)
                 ELSE Returned(EmptyMap)
         IN  IF existing.threw THEN existing
             ELSE addSaveProps(existing.value, blockSettings, attrs)
    ELSE Returned(PreviousWrapperProps(fn.v.name, attrs))

\* How many addEditProps closures a function value is wrapped in.
RECURSIVE WrapDepth(_)
WrapDepth(fn) ==
    IF fn.t = "function" /\ fn.v.name = "addEditProps"
    THEN 1 + WrapDepth(fn.v.existing)
    ELSE 0

---------------------------------------------------------------------------
(* withBlockControls.  A component is a record: its name and, for the      *)
(* component the higher-order component returns, the component it wraps.   *)
(* An element is a record: its type (a component), key, props, children.   *)

Component(name) == [name |-> name, wraps |-> <<>>]

Element(type, key, elementProps, children) ==
    [type |-> type, key |-> key, props |-> elementProps, children |-> children]

NoProps == <<>>

\* The value false in an array of elements: React renders nothing for it.
FalseElement == Element(Component("false"), "", NoProps, <<>>)

\* A higher-order component that leaves its own result alone.
withBlockControlsOnce(OriginalBlockEdit) ==
    IF OriginalBlockEdit.name = "withToolbarControls" THEN OriginalBlockEdit
    ELSE [name |-> "withToolbarControls", wraps |-> <<OriginalBlockEdit>>]

withBlockControls(OriginalBlockEdit) ==
    [name |-> "withToolbarControls", wraps |-> <<OriginalBlockEdit>>]

\* The render with the typography panel shown for any style support.
WithBlockControlsRenderAnySupport(OriginalBlockEdit, blockEditProps, blockType) ==
    LET hasTypographySupport == hasStyleSupport(blockType)
    IN  << IF hasTypographySupport
           THEN Element(Component("InspectorControls"), "typography", NoProps,
                    << Element(Component("PanelBody"), "",
                           [title |-> "Typography"],
                           << Element(Component("FontSizeEdit"), "",
                                  blockEditProps, <<>>),
                              Element(Component("LineHeightEdit"), "",
                                  blockEditProps, <<>>) >>) >>)
           ELSE FalseElement,
           Element(Component("ColorEdit"), "colors", blockEditProps, <<>>),
           Element(OriginalBlockEdit, "edit", blockEditProps, <<>>) >>

\* The array the wrapped component returns for its props.  blockType is
\* what the registry holds under props.name (undefined when nothing).
WithBlockControlsRender(OriginalBlockEdit, blockEditProps, blockType) ==
    LET hasTypographySupport ==
            \E i \in DOMAIN typographySupportKeys :
                hasBlockSupport(blockType, typographySupportKeys[i])
    IN  << IF hasTypographySupport
           THEN Element(Component("InspectorControls"), "typography", NoProps,
                    << Element(Component("PanelBody"), "",
                           [title |-> "Typography"],
                           << Element(Component("FontSizeEdit"), "",
                                  blockEditProps, <<>>),
                              Element(Component("LineHeightEdit"), "",
                                  blockEditProps, <<>>) >>) >>)
           ELSE FalseElement,
           Element(Component("ColorEdit"), "colors", blockEditProps, <<>>),
           Element(OriginalBlockEdit, "edit", blockEditProps, <<>>) >>

\* What rendering an element puts on screen, in order: nothing for false,
\* the elements a wrapped component returns (each rendered in turn), the
\* element itself for any other component.
RECURSIVE RenderedSequence(_, _), RenderedAll(_, _)
RenderedSequence(element, blockType) ==
    IF element = FalseElement THEN <<>>
    ELSE IF element.type.wraps # <<>>
    THEN RenderedAll(
             WithBlockControlsRender(element.type.wraps[1], element.props,
                 blockType),
             blockType)
    ELSE <<element>>

RenderedAll(elements, blockType) ==
    IF elements = <<>> THEN <<>>
    ELSE RenderedSequence(Head(elements), blockType)
            \o RenderedAll(Tail(elements), blockType)

RECURSIVE ComponentDepth(_)
ComponentDepth(component) ==
    IF component.wraps = <<>> THEN 0
    ELSE 1 + ComponentDepth(component.wraps[1])

---------------------------------------------------------------------------
(* The filters at work on one block type: the host applies the             *)
(* registration filters to its settings, the save filter to the props of   *)
(* its save element, the edit filter to its edit component, and calls and  *)
(* renders what they installed.  A filter may be applied again to what it  *)
(* returned, up to MaxApplications times.                                  *)

MaxApplications == 2
MaxStyleEntries == 1

BlockNames == {"core/paragraph", "core/missing"}

StyleKeys == {fontSizeKey, colorKey, valueOfKey}
StyleLeaves == {Num(16)}

\* The values of a block's style attribute; undefined when it has none.
StyleAttributes ==
    ObjectsUpTo(StyleKeys, StyleLeaves, MaxStyleEntries) \cup {Undefined}

AttributeValues == {[style |-> s] : s \in StyleAttributes}

\* The style entries a caller may supply: under a name the flattener
\* generates too, and under a plain CSS property.
CallerStyles ==
    UNION {[keys -> {Str("20px")}] :
              keys \in SUBSET {"--wp--font-size", "color"}}

SaveProps ==
    {EmptyMap, [k \in {"className"} |-> Str("wp-block-paragraph")]}
    \cup {[k \in {"className", "style"} |->
              IF k = "style" THEN callerStyle ELSE Str("wp-block-paragraph")] :
            callerStyle \in CallerStyles}

StringDeclaration == Obj(<< <<"type", Str("string")>> >>)
CustomStyleDeclaration ==
    Obj(<< <<"type", Str("object")>>, <<"default", Str("{}")>> >>)

DeclaredAttributes ==
    {Obj(<< <<"content", StringDeclaration>> >>),
     Obj(<< <<"style", ObjectDeclaration>>, <<"content", StringDeclaration>> >>),
     Obj(<< <<"content", StringDeclaration>>,
            <<"style", CustomStyleDeclaration>> >>)}

BlockSettings ==
    {[name |-> "core/paragraph",
      supports |-> supports,
      attributes |-> declared,
      getEditWrapperProps |-> fn] :
        supports \in SUBSET {COLOR_SUPPORT_KEY, LINE_HEIGHT_SUPPORT_KEY,
                             FONT_SIZE_SUPPORT_KEY} \cup {{"align"}},
        declared \in DeclaredAttributes,
        fn \in {Undefined, Function("alignWrapperProps", Undefined),
                Function("styleWrapperProps", Undefined)}}

EditProps == {[name |-> n, clientId |-> "block-1"] : n \in BlockNames}

\* getBlockType( name ): the registry holds the one block type.
getBlockType(name) == IF name = settings.name THEN settings ELSE Undefined

\* What the installed getEditWrapperProps answers for every attributes
\* value (a call of undefined throws).
WrapperOutputs(blockSettings) ==
    [a \in AttributeValues |->
        IF blockSettings.getEditWrapperProps = Undefined THEN Threw
        ELSE callGetEditWrapperProps(blockSettings.getEditWrapperProps,
                 blockSettings, a)]

\* The element sequence the edit component renders, for every props value.
RenderOutputs(component) ==
    [p \in EditProps |->
        RenderedSequence(Element(component, "", p, <<>>),
            getBlockType(p.name))]

\* The count and the observable results of the successive applications of
\* a filter.
NoAttributes == [style |-> Undefined]

InitFilters ==
    /\ pc = "ready"
    /\ settings \in BlockSettings
    /\ BlockEdit = Component("BlockEdit")
    /\ attributes = NoAttributes
    /\ returned = Returned(EmptyMap)
    /\ supplied = EmptyMap
    /\ props = EmptyMap
    /\ editProps = Idle
    /\ rendered = <<>>
    /\ applications = 0
    /\ observed = <<>>
    /\ CSSIdle
    /\ SelectorsIdle
    /\ PanelIdle

\* blocks.registerBlockType: addAttribute( settings ), on the settings as
\* registered and again on what it returned.  The settings object is
\* changed in place and returned.
ApplyAddAttribute ==
    /\ pc \in {"ready", "addAttribute"}
    /\ applications < MaxApplications
    /\ pc' = "addAttribute"
    /\ settings' = addAttribute(settings)
    /\ applications' = applications + 1
    /\ observed' = Append(observed, settings')
    /\ UNCHANGED <<BlockEdit, attributes, returned, supplied, props, editProps,
                   rendered, cssVars, selectorVars, panelVars>>

\* blocks.registerBlockType: addEditProps( settings ), likewise.
ApplyAddEditProps ==
    /\ pc \in {"ready", "addEditProps"}
    /\ applications < MaxApplications
    /\ pc' = "addEditProps"
    /\ settings' = addEditProps(settings)
    /\ applications' = applications + 1
    /\ observed' = Append(observed, WrapperOutputs(settings'))
    /\ UNCHANGED <<BlockEdit, attributes, returned, supplied, props, editProps,
                   rendered, cssVars, selectorVars, panelVars>>

\* The editor asks the block type for its wrapper props.
CallGetEditWrapperProps ==
    /\ pc \in {"ready", "addEditProps", "getEditWrapperProps"}
    /\ settings.getEditWrapperProps # Undefined
    /\ \E a \in AttributeValues :
        /\ attributes' = a
        /\ returned' = callGetEditWrapperProps(settings.getEditWrapperProps,
                           settings, a)
    /\ pc' = "getEditWrapperProps"
    /\ UNCHANGED <<settings, BlockEdit, supplied, props, editProps, rendered,
                   applications, observed, cssVars, selectorVars, panelVars>>

\* blocks.getSaveContent.extraProps: addSaveProps( props, blockType,
\* attributes ), on props the caller built.  The props object is changed in
\* place and returned.
ApplyAddSaveProps ==
    /\ pc = "ready"
    /\ \E p \in SaveProps, a \in AttributeValues :
        /\ supplied' = p
        /\ attributes' = a
        /\ returned' = addSaveProps(p, settings, a)
    /\ props' = returned'.value
    /\ pc' = "addSaveProps"
    /\ applications' = 1
    /\ observed' = <<returned'>>
    /\ UNCHANGED <<settings, BlockEdit, editProps, rendered, cssVars,
                   selectorVars, panelVars>>

\* The save filter applied again, to the props it returned.
ReapplyAddSaveProps ==
    /\ pc = "addSaveProps"
    /\ applications < MaxApplications
    /\ ~returned.threw
    /\ returned' = addSaveProps(props, settings, attributes)
    /\ props' = returned'.value
    /\ applications' = applications + 1
    /\ observed' = Append(observed, returned')
    /\ UNCHANGED <<pc, settings, BlockEdit, supplied, attributes, editProps,
                   rendered, cssVars, selectorVars, panelVars>>

\* editor.BlockEdit: withBlockControls( BlockEdit ), on the original edit
\* component and again on what it returned.
ApplyWithBlockControls ==
    /\ pc \in {"ready", "withBlockControls"}
    /\ applications < MaxApplications
    /\ pc' = "withBlockControls"
    /\ BlockEdit' = withBlockControls(BlockEdit)
    /\ applications' = applications + 1
    /\ observed' = Append(observed, RenderOutputs(BlockEdit'))
    /\ UNCHANGED <<settings, attributes, returned, supplied, props, editProps,
                   rendered, cssVars, selectorVars, panelVars>>

\* The editor renders the filtered edit component: the array it returns.
RenderBlockEdit ==
    /\ pc \in {"withBlockControls", "BlockEdit"}
    /\ \E p \in EditProps :
        /\ editProps' = p
        /\ rendered' = WithBlockControlsRender(BlockEdit.wraps[1], p,
                           getBlockType(p.name))
    /\ pc' = "BlockEdit"
    /\ UNCHANGED <<settings, BlockEdit, attributes, returned, supplied, props,
                   applications, observed, cssVars, selectorVars, panelVars>>

\* The four filters read and write different things (the declared
\* attributes, the wrapper-props function, the save props, the edit
\* component), so a behaviour follows one of them from registration on.
NextFilters ==
    \/ ApplyAddAttribute
    \/ ApplyAddEditProps
    \/ CallGetEditWrapperProps
    \/ ApplyAddSaveProps
    \/ ReapplyAddSaveProps
    \/ ApplyWithBlockControls
    \/ RenderBlockEdit

SpecFilters == InitFilters /\ [][NextFilters]_vars

(* The filters' claims.                                                    *)

\* Whether the block type declares one of color, line-height, font-size.
SupportsAStyleFeature(blockType) ==
    blockType.supports \cap {"color", "lineHeight", "fontSize"} # {}

\* C3: for a block type with style support, a returning addSaveProps leaves
\* in props.style every entry the caller supplied, with the caller's value,
\* also under a key the flattener generated; every other entry of
\* props.style is a generated one.
C3_CallerStyleKept ==
    (pc = "addSaveProps" /\ SupportsAStyleFeature(settings) /\ ~returned.threw)
    =>  /\ returned.value = props
        /\ "style" \in DOMAIN props
        /\ \A k \in DOMAIN StyleOf(supplied) :
              /\ k \in DOMAIN props["style"]
              /\ props["style"][k] = StyleOf(supplied)[k]
        /\ \A k \in DOMAIN props["style"] \ DOMAIN StyleOf(supplied) :
              /\ k \in DOMAIN getCSSVariables(attributes.style).value
              /\ props["style"][k] = getCSSVariables(attributes.style).value[k]
        /\ DOMAIN getCSSVariables(attributes.style).value
              \subseteq DOMAIN props["style"]

\* The caller supplied an entry under a name the flattener generated too,
\* with another value.
C3_Witness ==
    /\ pc = "addSaveProps"
    /\ SupportsAStyleFeature(settings)
    /\ ~returned.threw
    /\ "--wp--font-size" \in DOMAIN StyleOf(supplied)
    /\ "--wp--font-size" \in DOMAIN getCSSVariables(attributes.style).value
    /\ getCSSVariables(attributes.style).value["--wp--font-size"]
          # StyleOf(supplied)["--wp--font-size"]

\* The names of the attributes an attributes object declares.
DeclaredNames(declared) == {declared.v[i][1] : i \in DOMAIN declared.v}

\* C6: addAttribute gives a block type that supports color, line-height or
\* font-size and declares no style attribute the declaration
\* { type: 'object' }; it leaves a declared style attribute as it was; it
\* leaves the attributes of a block type without those supports unchanged;
\* and it never touches another attribute or another setting.
C6_AddAttributeStep ==
    pc' = "addAttribute" =>
        /\ IF SupportsAStyleFeature(settings)
           THEN IF "style" \in DeclaredNames(settings.attributes)
                THEN Prop(settings'.attributes, "style")
                        = Prop(settings.attributes, "style")
                ELSE Prop(settings'.attributes, "style")
                        = Obj(<< <<"type", Str("object")>> >>)
           ELSE settings'.attributes = settings.attributes
        /\ DeclaredNames(settings'.attributes) \ {"style"}
              = DeclaredNames(settings.attributes) \ {"style"}
        /\ \A name \in DeclaredNames(settings.attributes) \ {"style"} :
              Prop(settings'.attributes, name) = Prop(settings.attributes, name)
        /\ [settings' EXCEPT !.attributes = 0] = [settings EXCEPT !.attributes = 0]

\* C6: every application of addAttribute adds the { type: 'object' } style
\* declaration only where it is absent and the block type supports a style
\* feature, and changes nothing else.
C6_AddAttribute == [][C6_AddAttributeStep]_vars

\* The filter added the declaration to a block type that had none.
C6_Witness ==
    /\ pc = "addAttribute"
    /\ SupportsAStyleFeature(settings)
    /\ Prop(settings.attributes, "style") = Obj(<< <<"type", Str("object")>> >>)
    /\ settings.attributes.v[Len(settings.attributes.v)][1] = "style"
    /\ Len(settings.attributes.v) = 2

\* Every successive application of the filter left the same observable
\* result as the first.
SameAsOnce == \A i \in DOMAIN observed : observed[i] = observed[1]

\* C7 as stated: each of the four filter callbacks is idempotent.
C7_AllIdempotent ==
    pc \in {"addAttribute", "addSaveProps", "addEditProps", "withBlockControls"}
    => SameAsOnce

\* C7 as amended: addAttribute, addSaveProps and addEditProps are
\* idempotent in their observable result; withBlockControls is not: the
\* component it returns when applied twice renders, for every props, the
\* color control (and the typography panel, when rendered at all) twice
\* before the original edit component.
C7_ThreeIdempotent ==
    /\ pc \in {"addAttribute", "addSaveProps", "addEditProps"} => SameAsOnce
    /\ (pc = "withBlockControls" /\ applications >= 2) =>
          \A p \in EditProps :
              /\ Len(observed[2][p]) = 2 * Len(observed[1][p]) - 1
              /\ observed[2][p] # observed[1][p]
              /\ observed[2][p][Len(observed[2][p])]
                    = observed[1][p][Len(observed[1][p])]

\* Each filter was applied twice; the witness is the edit filter's case.
C7_Witness ==
    /\ pc = "withBlockControls"
    /\ applications = 2
    /\ \E p \in EditProps : Len(observed[2][p]) = 5

\* The function registered before addEditProps ran, under its closures.
RECURSIVE PreviousFunction(_)
PreviousFunction(fn) ==
    IF fn.t = "function" /\ fn.v.name = "addEditProps"
    THEN PreviousFunction(fn.v.existing)
    ELSE fn

\* C8, of a call: the getEditWrapperProps that addEditProps installed
\* returns what the previously registered function returns for the same
\* attributes (empty props when there was none), with the generated style
\* entries added under the style keys the previous function did not set.
C8_ChainedCall ==
    (/\ pc = "getEditWrapperProps"
     /\ WrapDepth(settings.getEditWrapperProps) > 0
     /\ ~returned.threw)
    =>  LET previous == PreviousFunction(settings.getEditWrapperProps)
            base == IF previous = Undefined THEN EmptyMap
                    ELSE PreviousWrapperProps(previous.v.name, attributes)
            generated == getCSSVariables(attributes.style).value
        IN  /\ \A k \in DOMAIN base \ {"style"} :
                  k \in DOMAIN returned.value /\ returned.value[k] = base[k]
            /\ DOMAIN returned.value = DOMAIN base \cup {"style"}
            /\ \A k \in DOMAIN StyleOf(base) :
                  returned.value["style"][k] = StyleOf(base)[k]
            /\ \A k \in DOMAIN generated \ DOMAIN StyleOf(base) :
                  returned.value["style"][k] = generated[k]
            /\ DOMAIN returned.value["style"]
                  = DOMAIN generated \cup DOMAIN StyleOf(base)

\* C8, of the filter: with style support it installs a function over the
\* previous one; without, it leaves settings.getEditWrapperProps unchanged.
C8_InstallStep ==
    pc' = "addEditProps" =>
        IF SupportsAStyleFeature(settings)
        THEN /\ WrapDepth(settings'.getEditWrapperProps)
                   = WrapDepth(settings.getEditWrapperProps) + 1
             /\ PreviousFunction(settings'.getEditWrapperProps)
                   = PreviousFunction(settings.getEditWrapperProps)
        ELSE settings' = settings

\* C8: addEditProps chains the wrapper-props function with the previously
\* registered one instead of replacing it.
C8_Chains == []C8_ChainedCall /\ [][C8_InstallStep]_vars

\* The installed function was called over a previous one that returns
\* props of its own, style included.
C8_Witness ==
    /\ pc = "getEditWrapperProps"
    /\ WrapDepth(settings.getEditWrapperProps) = 1
    /\ PreviousFunction(settings.getEditWrapperProps) # Undefined
    /\ PreviousFunction(settings.getEditWrapperProps).v.name
          = "styleWrapperProps"
    /\ ~returned.threw
    /\ "--wp--color" \in DOMAIN returned.value["style"]
    /\ returned.value["data-has-style"] = Str("yes")

\* C9: the component withBlockControls returns renders three things in
\* order: the typography panel, holding the font-size and line-height
\* editors, exactly when the block type of that name supports line-height
\* or font-size (false otherwise); the color control, whatever the
\* supports; the original edit component, last, with the props handed in.
C9_RenderOrder ==
    pc = "BlockEdit" =>
        LET typography ==
                /\ editProps.name = settings.name
                /\ settings.supports \cap {"lineHeight", "fontSize"} # {}
        IN  /\ Len(rendered) = 3
            /\ IF typography
               THEN /\ rendered[1].type.name = "InspectorControls"
                    /\ Len(rendered[1].children) = 1
                    /\ rendered[1].children[1].type.name = "PanelBody"
                    /\ Len(rendered[1].children[1].children) = 2
                    /\ rendered[1].children[1].children[1].type.name
                          = "FontSizeEdit"
                    /\ rendered[1].children[1].children[2].type.name
                          = "LineHeightEdit"
               ELSE rendered[1] = FalseElement
            /\ rendered[2].type.name = "ColorEdit"
            /\ rendered[2].props = editProps
            /\ rendered[3].type = BlockEdit.wraps[1]
            /\ rendered[3].props = editProps

\* A block type that supports color only was rendered: no typography
\* panel, the color control, the original edit component.
C9_Witness ==
    /\ pc = "BlockEdit"
    /\ editProps.name = settings.name
    /\ settings.supports = {"color"}
    /\ rendered[1] = FalseElement
    /\ rendered[3].type.name = "BlockEdit"

---------------------------------------------------------------------------
(* NavigationStructurePanel, over the block editor store.                  *)

MaxBlocks == 3

ClientIds == {"block-a", "block-b", "block-c", "block-d"}

\* useDispatch( 'core/block-editor' ).selectBlock: the store's action.
StoreSelectBlock == "core/block-editor.selectBlock"

\* The last element of the selection in place of the first.
LastOf(ids) == IF ids = <<>> THEN Undefined ELSE Str(ids[Len(ids)])

\* selectedBlockClientIds[ 0 ]: undefined of an empty selection.
FirstOf(ids) == IF ids = <<>> THEN Undefined ELSE Str(ids[1])

\* The element NavigationStructurePanel returns for its blocks prop and
\* the store's getSelectedBlockClientIds().
NavigationStructurePanel(blocksProp, selectedIds) ==
    Element(Component("Panel"), "", NoProps,
        << Element(Component("PanelBody"), "",
               [title |-> "Navigation structure"],
               << IF Len(blocksProp) # 0
                  THEN Element(Component("Fragment"), "", NoProps,
                           << Element(Component("BlockNavigationToolbar"), "",
                                  NoProps, <<>>),
                              Element(Component("BlockNavigationList"), "",
                                  [blocks |-> blocksProp,
                                   selectedBlockClientId |-> FirstOf(selectedIds),
                                   selectBlock |-> StoreSelectBlock,
                                   showNestedBlocks |-> TRUE,
                                   showAppender |-> TRUE],
                                  <<>>) >>)
                  ELSE FalseElement >>) >>)

\* The store's selectBlock( clientId ) action: the block becomes the
\* selection.
selectBlock(clientId) == <<clientId>>

BlockIds(bs) == {bs[i].clientId : i \in DOMAIN bs}

\* A sequence without the elements that fail the test.
RECURSIVE Without(_, _)
Without(seq, dropped) ==
    IF seq = <<>> THEN <<>>
    ELSE IF Head(seq) \in dropped THEN Without(Tail(seq), dropped)
    ELSE <<Head(seq)>> \o Without(Tail(seq), dropped)

InitPanel ==
    /\ pc = "ready"
    /\ blocks = <<>>
    /\ selectedBlockClientIds = <<>>
    /\ panel = NavigationStructurePanel(blocks, selectedBlockClientIds)
    /\ CSSIdle
    /\ SelectorsIdle
    /\ FiltersIdle

\* The parent hands the panel a blocks sequence with one block more; the
\* panel renders again.
InsertBlock ==
    /\ Len(blocks) < MaxBlocks
    /\ \E id \in ClientIds \ BlockIds(blocks), i \in 0..Len(blocks) :
          blocks' = SubSeq(blocks, 1, i)
                      \o <<[clientId |-> id, innerBlocks |-> <<>>]>>
                      \o SubSeq(blocks, i + 1, Len(blocks))
    /\ panel' = NavigationStructurePanel(blocks', selectedBlockClientIds)
    /\ pc' = "insertBlock"
    /\ UNCHANGED <<selectedBlockClientIds, cssVars, selectorVars, filterVars>>

\* A block is removed, from the selection too; the panel renders again.
RemoveBlock ==
    /\ \E i \in DOMAIN blocks :
        /\ blocks' = SubSeq(blocks, 1, i - 1) \o SubSeq(blocks, i + 1, Len(blocks))
        /\ selectedBlockClientIds'
              = Without(selectedBlockClientIds, {blocks[i].clientId})
    /\ panel' = NavigationStructurePanel(blocks', selectedBlockClientIds')
    /\ pc' = "removeBlock"
    /\ UNCHANGED <<cssVars, selectorVars, filterVars>>

\* The user picks an entry of the rendered block list: the list calls the
\* selectBlock prop it was given; the store's selection changes and the
\* panel, subscribed through useSelect, renders again.
ClickListEntry ==
    /\ Len(blocks) # 0
    /\ LET list == panel.children[1].children[1].children[2]
       IN  /\ list.props.selectBlock = StoreSelectBlock
           /\ \E i \in DOMAIN list.props.blocks :
                 selectedBlockClientIds'
                    = selectBlock(list.props.blocks[i].clientId)
    /\ panel' = NavigationStructurePanel(blocks, selectedBlockClientIds')
    /\ pc' = "selectBlock"
    /\ UNCHANGED <<blocks, cssVars, selectorVars, filterVars>>

\* The selection is extended in the editor canvas by one more block; the
\* panel renders again.
MultiSelect ==
    /\ selectedBlockClientIds # <<>>
    /\ \E id \in BlockIds(blocks) :
        /\ \A i \in DOMAIN selectedBlockClientIds :
              selectedBlockClientIds[i] # id
        /\ selectedBlockClientIds' \in
              {Append(selectedBlockClientIds, id),
               <<id>> \o selectedBlockClientIds}
    /\ panel' = NavigationStructurePanel(blocks, selectedBlockClientIds')
    /\ pc' = "multiSelect"
    /\ UNCHANGED <<blocks, cssVars, selectorVars, filterVars>>

\* The selection is cleared; the panel renders again.
ClearSelectedBlock ==
    /\ selectedBlockClientIds # <<>>
    /\ selectedBlockClientIds' = <<>>
    /\ panel' = NavigationStructurePanel(blocks, selectedBlockClientIds')
    /\ pc' = "clearSelectedBlock"
    /\ UNCHANGED <<blocks, cssVars, selectorVars, filterVars>>

NextPanel ==
    \/ InsertBlock
    \/ RemoveBlock
    \/ ClickListEntry
    \/ MultiSelect
    \/ ClearSelectedBlock

SpecPanel == InitPanel /\ [][NextPanel]_vars

(* The panel's claims.                                                     *)

\* The elements on screen under an element, itself included, false and
\* fragments left out.
RECURSIVE OnScreen(_), OnScreenAll(_)
OnScreen(element) ==
    IF element.type.name = "false" THEN <<>>
    ELSE IF element.type.name = "Fragment" THEN OnScreenAll(element.children)
    ELSE <<element.type.name>> \o OnScreenAll(element.children)

OnScreenAll(elements) ==
    IF elements = <<>> THEN <<>>
    ELSE OnScreen(Head(elements)) \o OnScreenAll(Tail(elements))

\* What the panel shows for blocks that are not empty: the toolbar, then
\* the list of the blocks, the first selected block highlighted, selection
\* going through the store's selectBlock.
ShowsToolbarAndList ==
    /\ OnScreen(panel)
          = <<"Panel", "PanelBody", "BlockNavigationToolbar",
              "BlockNavigationList">>
    /\ LET list == panel.children[1].children[1].children[2]
       IN  /\ list.type.name = "BlockNavigationList"
           /\ list.props.blocks = blocks
           /\ list.props.selectedBlockClientId
                 = IF selectedBlockClientIds = <<>>
                   THEN [t |-> "undefined", v |-> 0]
                   ELSE [t |-> "string", v |-> selectedBlockClientIds[1]]
           /\ list.props.selectBlock = "core/block-editor.selectBlock"

\* C10 as stated: the panel renders nothing for an empty blocks sequence,
\* and the toolbar followed by the block list otherwise.
C10_NothingWhenEmpty ==
    pc \in {"ready", "insertBlock", "removeBlock", "selectBlock",
            "multiSelect", "clearSelectedBlock"}
    => IF blocks = <<>> THEN OnScreen(panel) = <<>> ELSE ShowsToolbarAndList

\* C10 as amended: for an empty blocks sequence the panel renders the
\* Panel and its 'Navigation structure' PanelBody with nothing inside, no
\* toolbar and no block list; otherwise the toolbar followed by the block
\* list inside them.
C10_EmptyShellWhenEmpty ==
    pc \in {"ready", "insertBlock", "removeBlock", "selectBlock",
            "multiSelect", "clearSelectedBlock"}
    => /\ panel.type.name = "Panel"
       /\ panel.children[1].props.title = "Navigation structure"
       /\ IF blocks = <<>>
          THEN OnScreen(panel) = <<"Panel", "PanelBody">>
          ELSE ShowsToolbarAndList

\* Several blocks are selected and the list highlights the first of them;
\* before, the panel was empty.
C10_Witness ==
    /\ Len(blocks) >= 2
    /\ Len(selectedBlockClientIds) = 2
    /\ selectedBlockClientIds[1] # blocks[1].clientId
    /\ panel.children[1].children[1].children[2].props.selectedBlockClientId
          = Str(selectedBlockClientIds[1])

=============================================================================
